---- MODULE Spec2Model ----
(***************************************************************************)
(* The five firmware programs of the repository as one state machine,      *)
(* selected by `variant`:                                                  *)
(*   "AC_tenths"  AC_Timer.c            16-bit skip-zero 1/10 s ticks      *)
(*   "AC_millis"  part_001 (1st prog.)  32-bit skip-zero millisecond ticks *)
(*   "AC_seconds" part_001 (2nd prog.)  millis_count / seconds_count       *)
(*   "IT_boot"    Intellitimer_v2.c (1st prog.)  boot-on, duty cycle       *)
(*   "IT_button"  Intellitimer_v2.c (2nd prog.)  button, duty cycle        *)
(* Two threads of control: the timer interrupt (Tick, Idle) and the main   *)
(* loop (ReadNow, Iterate, WaitToDie).  The button pin is the environment  *)
(* (PinChange).                                                            *)
(***************************************************************************)
EXTENDS Integers, FiniteSets, TLC

VARIABLES
    variant,        \* which program is running
    ticks_cnt,      \* ticks_cnt (AC_Timer.c) / millis_cnt (part_001, 1st)
    millis_count,   \* millis_count (AC_seconds, IT_button)
    seconds_count,  \* seconds_count (AC_seconds, IT_boot, IT_button)
    power_on_time,  \* power_on_time
    PORTB,          \* the set of PORTB bits that are 1
    PINB,           \* level of the button pin: 1 released (pull-up), 0 pushed
    debounce_time,  \* check_button's static debounce_time
    button_state,   \* check_button's static button_state
    in_debounce,    \* check_button's static in_debounce (AC_seconds, IT_button)
    now,            \* main's local `now` of the current iteration
    btn,            \* what check_button returned in the latest iteration
    branch,         \* which path the latest iteration took through the loop body
    pc,             \* main's position: "loop", "check", "dead"
    wdt_fed,        \* wdt_reset() was the latest statement main executed
    since,          \* history: timer events since the latest sampled level change
    acts,           \* history: activations returned since the latest sampled change
    total,          \* history: timer events since the start, modulo EventsWrap
    waiting,        \* history: a change was sampled and check_button has not yet
                    \* found its debounce window passed
    fine,           \* Tick steps and early stops of Idle taken (bounded by MaxFine)
    flips,          \* number of PinChange steps taken (bounded by MaxFlips)
    rolls,          \* number of Idle steps into a new duty period (bounded by MaxRolls)
    dozes,          \* number of Doze steps taken (bounded by MaxDoze)
    rd              \* the call of ticks() / millis() / seconds() in progress

vars == <<variant, total, ticks_cnt, millis_count, seconds_count, power_on_time, PORTB,
          PINB, debounce_time, button_state, in_debounce, now, btn, branch, pc,
          wdt_fed, since, acts, waiting, fine, flips, rolls, dozes, rd>>

(***************************************************************************)
(* Bounds of the model.                                                    *)
(***************************************************************************)
\* timer events taken one at a time at any point of the main loop, and idle
\* stretches stopped one event short of their deadline
MaxFine == 1
\* changes of the button pin
MaxFlips == 2
\* duty-cycle periods entered one after the other before the rest is passed over
MaxRolls == 1
\* long stretches of time passed while the program is off
MaxDoze == 1
\* `since` stops counting here (above every debounce threshold)
SinceCap == 52

(***************************************************************************)
(* The programs and their configuration.                                   *)
(***************************************************************************)
Variants == {"AC_tenths", "AC_millis", "AC_seconds", "IT_boot", "IT_button"}

\* the counter skips over 0
SkipZero(v) == v \in {"AC_tenths", "AC_millis"}

\* millis_count cascades into seconds_count
Cascade(v) == v \in {"AC_seconds", "IT_button"}

\* the programs with a warning stage
IsAC(v) == v \in {"AC_tenths", "AC_millis", "AC_seconds"}

\* the programs with a button
HasButton(v) == v # "IT_boot"

\* the programs with a duty cycle
HasDuty(v) == v \in {"IT_boot", "IT_button"}

BIT_POWER == "BIT_POWER"
BIT_WARN == "BIT_WARN"
BIT_BUTTON == "BIT_BUTTON"
BIT_LED == "BIT_LED"
BIT_LOAD == "BIT_LOAD"

\* uint16_t arithmetic
Wrap16 == 65536

\* the largest value the model's integers hold (the 32-bit counter of
\* "AC_millis" is kept below it by the guards of Tick and Idle)
IntMax == 2147483647

DEBOUNCE_TIME(v) ==
    CASE v = "AC_tenths" -> 1
      [] v = "AC_millis" -> 50
      [] OTHER -> 50

POWER_OFF_TIME(v) ==
    CASE v = "AC_tenths" -> 30
      [] v = "AC_millis" -> 30 * 60 * 1000
      [] v = "AC_seconds" -> 30 * 60
      [] OTHER -> 6 * 3600

WARN_TIME(v) ==
    CASE v = "AC_tenths" -> 25
      [] v = "AC_millis" -> 25 * 60 * 1000
      [] OTHER -> 25 * 60

\* the duty cycle: on for DutyOn(v) seconds out of every DutyPeriod
DutyPeriod == 223

DutyOn(v) == IF v = "IT_boot" THEN 120 ELSE 60

\* ticks per minute in AC_Timer.c: (10UL * 60)
TicksPerMinute == 10 * 60

\* millis_count runs 0..999
MillisPerSecond == 1000

\* timer events after which millis_count and seconds_count are both at 0 again
EventsWrap == MillisPerSecond * Wrap16

(***************************************************************************)
(* Unsigned subtraction in the counter's width.                            *)
(***************************************************************************)
Sub16(a, b) == (a - b) % Wrap16

\* unsigned long subtraction; the counter stays below IntMax, and a
\* difference that would wrap (a < b) is at least 2^31: IntMax stands for it
Sub32(a, b) == IF a >= b THEN a - b ELSE IntMax

Sub(v, a, b) == IF v = "AC_millis" THEN Sub32(a, b) ELSE Sub16(a, b)

\* conversion of a uint16_t value to int16_t
ToInt16(x) == IF x >= 32768 THEN x - Wrap16 ELSE x

Min(a, b) == IF a <= b THEN a ELSE b

(***************************************************************************)
(* The timer interrupt.  A counter state is [t, ms, s]: ticks_cnt,         *)
(* millis_count, seconds_count.                                            *)
(***************************************************************************)
Counters == [t |-> ticks_cnt, ms |-> millis_count, s |-> seconds_count]

\* the interrupt handler in which millis_count rolls over one event late
ISR_LateCascade(v, c) ==
    CASE v = "AC_tenths" ->
            LET x == (c.t + 1) % Wrap16
            IN  [c EXCEPT !.t = IF x = 0 THEN 1 ELSE x]
      [] v = "AC_millis" ->
            LET x == c.t + 1
            IN  [c EXCEPT !.t = IF x = 0 THEN 1 ELSE x]
      [] Cascade(v) ->
            IF c.ms + 1 > MillisPerSecond
            THEN [c EXCEPT !.ms = 0, !.s = (c.s + 1) % Wrap16]
            ELSE [c EXCEPT !.ms = c.ms + 1]
      [] OTHER -> [c EXCEPT !.s = (c.s + 1) % Wrap16]

\* the interrupt handler with a counter that wraps to 0
ISR_NoSkip(v, c) ==
    CASE v = "AC_tenths" -> [c EXCEPT !.t = (c.t + 1) % Wrap16]
      [] v = "AC_millis" -> [c EXCEPT !.t = c.t + 1]
      [] Cascade(v) ->
            IF c.ms + 1 = MillisPerSecond
            THEN [c EXCEPT !.ms = 0, !.s = (c.s + 1) % Wrap16]
            ELSE [c EXCEPT !.ms = c.ms + 1]
      [] OTHER -> [c EXCEPT !.s = (c.s + 1) % Wrap16]

\* ISR(TIM0_COMPA_vect): one timer event
ISR(v, c) ==
    CASE v = "AC_tenths" ->
            LET x == (c.t + 1) % Wrap16
            IN  [c EXCEPT !.t = IF x = 0 THEN 1 ELSE x]
      [] v = "AC_millis" ->
            LET x == c.t + 1
            IN  [c EXCEPT !.t = IF x = 0 THEN 1 ELSE x]
      [] Cascade(v) ->
            IF c.ms + 1 = MillisPerSecond
            THEN [c EXCEPT !.ms = 0, !.s = (c.s + 1) % Wrap16]
            ELSE [c EXCEPT !.ms = c.ms + 1]
      [] OTHER -> [c EXCEPT !.s = (c.s + 1) % Wrap16]

\* n timer events in a row: ISR applied n times, in closed form
After(v, c, n) ==
    CASE v = "AC_tenths" -> [c EXCEPT !.t = ((c.t - 1 + n) % (Wrap16 - 1)) + 1]
      [] v = "AC_millis" -> [c EXCEPT !.t = c.t + n]
      [] Cascade(v) ->
            [c EXCEPT !.ms = (c.ms + n) % MillisPerSecond,
                      !.s = (c.s + ((c.ms + n) \div MillisPerSecond)) % Wrap16]
      [] OTHER -> [c EXCEPT !.s = (c.s + n) % Wrap16]

\* ticks() / millis() / seconds() as main reads it into `now`
MainClock(v, c) == IF SkipZero(v) THEN c.t ELSE c.s

\* ticks() / millis() as check_button reads it into its own `now`
ButtonClock(v, c) == IF SkipZero(v) THEN c.t ELSE c.ms

(***************************************************************************)
(* check_button                                                            *)
(***************************************************************************)
\* "we're waiting to report": debounce_time != 0, or in_debounce != 0
Awaiting(v, dt, ind) == IF Cascade(v) THEN ind # 0 ELSE dt # 0

\* the debounce window has passed
DebounceElapsed(v, cbnow, dt) ==
    IF Cascade(v)
    THEN LET d0 == ToInt16(Sub16(cbnow, dt))
             delta == IF d0 < 0 THEN d0 + MillisPerSecond ELSE d0
         IN  delta >= DEBOUNCE_TIME(v)
    ELSE Sub(v, cbnow, dt) > DEBOUNCE_TIME(v)

\* check_button that goes on reporting after the debounce window
check_button_NoClear(v, cbnow, status, db) ==
    IF (db.button_state = 0) # (status = 0)
    THEN [path |-> "change", ret |-> 0, debounce_time |-> cbnow, button_state |-> status,
          in_debounce |-> IF Cascade(v) THEN 1 ELSE db.in_debounce]
    ELSE IF ~Awaiting(v, db.debounce_time, db.in_debounce)
    THEN [path |-> "idle", ret |-> 0, debounce_time |-> db.debounce_time,
          button_state |-> db.button_state, in_debounce |-> db.in_debounce]
    ELSE IF DebounceElapsed(v, cbnow, db.debounce_time)
    THEN [path |-> "report", ret |-> status, debounce_time |-> db.debounce_time,
          button_state |-> db.button_state, in_debounce |-> db.in_debounce]
    ELSE [path |-> "wait", ret |-> 0, debounce_time |-> db.debounce_time,
          button_state |-> db.button_state, in_debounce |-> db.in_debounce]

\* check_button that reports the end of every debounce window, the one of a
\* release too
check_button_ReportsRelease(v, cbnow, status, db) ==
    IF (db.button_state = 0) # (status = 0)
    THEN [path |-> "change", ret |-> 0, debounce_time |-> cbnow, button_state |-> status,
          in_debounce |-> IF Cascade(v) THEN 1 ELSE db.in_debounce]
    ELSE IF ~Awaiting(v, db.debounce_time, db.in_debounce)
    THEN [path |-> "idle", ret |-> 0, debounce_time |-> db.debounce_time,
          button_state |-> db.button_state, in_debounce |-> db.in_debounce]
    ELSE IF DebounceElapsed(v, cbnow, db.debounce_time)
    THEN [path |-> "report", ret |-> 1,
          debounce_time |-> IF Cascade(v) THEN db.debounce_time ELSE 0,
          button_state |-> db.button_state,
          in_debounce |-> IF Cascade(v) THEN 0 ELSE db.in_debounce]
    ELSE [path |-> "wait", ret |-> 0, debounce_time |-> db.debounce_time,
          button_state |-> db.button_state, in_debounce |-> db.in_debounce]

\* check_button that times the window from the first change of a burst
check_button_NoRestart(v, cbnow, status, db) ==
    IF (db.button_state = 0) # (status = 0)
    THEN [path |-> "change", ret |-> 0,
          debounce_time |-> IF Awaiting(v, db.debounce_time, db.in_debounce)
                            THEN db.debounce_time ELSE cbnow,
          button_state |-> status,
          in_debounce |-> IF Cascade(v) THEN 1 ELSE db.in_debounce]
    ELSE IF ~Awaiting(v, db.debounce_time, db.in_debounce)
    THEN [path |-> "idle", ret |-> 0, debounce_time |-> db.debounce_time,
          button_state |-> db.button_state, in_debounce |-> db.in_debounce]
    ELSE IF DebounceElapsed(v, cbnow, db.debounce_time)
    THEN [path |-> "report", ret |-> status,
          debounce_time |-> IF Cascade(v) THEN db.debounce_time ELSE 0,
          button_state |-> db.button_state,
          in_debounce |-> IF Cascade(v) THEN 0 ELSE db.in_debounce]
    ELSE [path |-> "wait", ret |-> 0, debounce_time |-> db.debounce_time,
          button_state |-> db.button_state, in_debounce |-> db.in_debounce]

\* check_button(): cbnow is its reading of the clock, status is !(PINB & BIT_BUTTON),
\* db = [debounce_time, button_state, in_debounce]; the result adds ret, the
\* value returned, and path, the return statement reached
check_button(v, cbnow, status, db) ==
    IF (db.button_state = 0) # (status = 0)
    THEN [path |-> "change", ret |-> 0, debounce_time |-> cbnow, button_state |-> status,
          in_debounce |-> IF Cascade(v) THEN 1 ELSE db.in_debounce]
    ELSE IF ~Awaiting(v, db.debounce_time, db.in_debounce)
    THEN [path |-> "idle", ret |-> 0, debounce_time |-> db.debounce_time,
          button_state |-> db.button_state, in_debounce |-> db.in_debounce]
    ELSE IF DebounceElapsed(v, cbnow, db.debounce_time)
    THEN [path |-> "report", ret |-> status,
          debounce_time |-> IF Cascade(v) THEN db.debounce_time ELSE 0,
          button_state |-> db.button_state,
          in_debounce |-> IF Cascade(v) THEN 0 ELSE db.in_debounce]
    ELSE [path |-> "wait", ret |-> 0, debounce_time |-> db.debounce_time,
          button_state |-> db.button_state, in_debounce |-> db.in_debounce]

(***************************************************************************)
(* The body of main's loop.                                                *)
(***************************************************************************)
\* the duty cycle switching the system power instead of the load
LoadBit_SystemPower(v) == BIT_POWER

\* the output that carries the load
LoadBit(v) == IF v = "IT_boot" THEN BIT_LOAD ELSE BIT_POWER

\* the PORTB bit that says the program is in its ON period
OnBit(v) ==
    CASE v = "IT_boot" -> BIT_POWER
      [] v = "IT_button" -> BIT_LED
      [] OTHER -> BIT_POWER

\* "Are we there yet?": the comparison of the power-off test
TimedOut(v, nw, pot) ==
    CASE v = "AC_tenths" -> (Sub16(nw, pot) \div TicksPerMinute) > POWER_OFF_TIME(v)
      [] v = "AC_millis" -> Sub32(nw, pot) > POWER_OFF_TIME(v)
      [] v = "IT_boot" -> nw >= POWER_OFF_TIME(v)
      [] OTHER -> Sub16(nw, pot) >= POWER_OFF_TIME(v)

\* a warning test that never succeeds
WarnDue_Never(v, nw, pot) == FALSE

\* the comparison of the warning test
WarnDue(v, nw, pot) ==
    CASE v = "AC_tenths" -> (Sub16(nw, pot) \div TicksPerMinute) > WARN_TIME(v)
      [] v = "AC_millis" -> Sub32(nw, pot) > WARN_TIME(v)
      [] OTHER -> Sub16(nw, pot) >= WARN_TIME(v)

\* should_be counted from boot in both programs
should_be_FromBoot(v, nw, pot) == (nw % DutyPeriod) < DutyOn(v)

\* should_be of the duty cycle
should_be(v, nw, pot) ==
    IF v = "IT_boot"
    THEN (nw % DutyPeriod) < DutyOn(v)
    ELSE (Sub16(nw, pot) % DutyPeriod) < DutyOn(v)

\* ButtonPressed with the press from OFF forgetting to record the time
ButtonPressed_NoTimestamp(v, P, pot, nw) ==
    IF v = "IT_button"
    THEN [PORTB |-> P \cup {BIT_LED, BIT_POWER}, power_on_time |-> nw, branch |-> "on"]
    ELSE IF BIT_POWER \in P
    THEN IF BIT_WARN \in P
         THEN [PORTB |-> P \ {BIT_WARN}, power_on_time |-> nw, branch |-> "snooze"]
         ELSE [PORTB |-> P \ {BIT_POWER, BIT_WARN}, power_on_time |-> pot,
               branch |-> "off"]
    ELSE [PORTB |-> P \cup {BIT_POWER}, power_on_time |-> pot, branch |-> "on"]

\* ButtonPressed with a press in plain ON restarting the timer instead of
\* switching off
ButtonPressed_NeverOff(v, P, pot, nw) ==
    IF v = "IT_button"
    THEN [PORTB |-> P \cup {BIT_LED, BIT_POWER}, power_on_time |-> nw, branch |-> "on"]
    ELSE IF BIT_POWER \in P
    THEN [PORTB |-> P \ {BIT_WARN}, power_on_time |-> nw, branch |-> "snooze"]
    ELSE [PORTB |-> P \cup {BIT_POWER}, power_on_time |-> nw, branch |-> "on"]

\* ButtonPressed as a plain toggle: a press in WARNING switches off too
ButtonPressed_Toggle(v, P, pot, nw) ==
    IF v = "IT_button"
    THEN [PORTB |-> P \cup {BIT_LED, BIT_POWER}, power_on_time |-> nw, branch |-> "on"]
    ELSE IF BIT_POWER \in P
    THEN [PORTB |-> P \ {BIT_POWER, BIT_WARN}, power_on_time |-> pot, branch |-> "off"]
    ELSE [PORTB |-> P \cup {BIT_POWER}, power_on_time |-> nw, branch |-> "on"]

\* ButtonPressed with the Intellitimer's button switching off when it is on
ButtonPressed_IntelliToggle(v, P, pot, nw) ==
    IF v = "IT_button"
    THEN IF BIT_LED \in P
         THEN [PORTB |-> P \ {BIT_LED, BIT_POWER}, power_on_time |-> pot,
               branch |-> "off"]
         ELSE [PORTB |-> P \cup {BIT_LED, BIT_POWER}, power_on_time |-> nw,
               branch |-> "on"]
    ELSE IF BIT_POWER \in P
    THEN IF BIT_WARN \in P
         THEN [PORTB |-> P \ {BIT_WARN}, power_on_time |-> nw, branch |-> "snooze"]
         ELSE [PORTB |-> P \ {BIT_POWER, BIT_WARN}, power_on_time |-> pot,
               branch |-> "off"]
    ELSE [PORTB |-> P \cup {BIT_POWER}, power_on_time |-> nw, branch |-> "on"]

\* the branch taken when check_button() returns non-zero:
\* out = [PORTB, power_on_time, branch]
ButtonPressed(v, P, pot, nw) ==
    IF v = "IT_button"
    THEN [PORTB |-> P \cup {BIT_LED, BIT_POWER}, power_on_time |-> nw, branch |-> "on"]
    ELSE IF BIT_POWER \in P
    THEN IF BIT_WARN \in P
         THEN [PORTB |-> P \ {BIT_WARN}, power_on_time |-> nw, branch |-> "snooze"]
         ELSE [PORTB |-> P \ {BIT_POWER, BIT_WARN}, power_on_time |-> pot,
               branch |-> "off"]
    ELSE [PORTB |-> P \cup {BIT_POWER}, power_on_time |-> nw, branch |-> "on"]

\* PowerOff leaving the load switched on
PowerOff_LoadStaysOn(v, P) ==
    CASE v = "IT_boot" -> P \ {BIT_LOAD, BIT_POWER}
      [] OTHER -> P \ {BIT_WARN, BIT_LED}

\* PowerOff leaving the warning light on
PowerOff_KeepWarn(v, P) ==
    CASE v = "IT_boot" -> P \ {BIT_LOAD, BIT_POWER}
      [] v = "IT_button" -> P \ {BIT_POWER, BIT_LED}
      [] OTHER -> P \ {BIT_POWER}

\* what the power-off test clears
PowerOff(v, P) ==
    CASE v = "IT_boot" -> P \ {BIT_LOAD, BIT_POWER}
      [] v = "IT_button" -> P \ {BIT_POWER, BIT_LED}
      [] OTHER -> P \ {BIT_POWER, BIT_WARN}

\* the duty-cycle block: the load output follows should_be
DutyCycle(v, P, pot, nw) ==
    LET is_on == LoadBit(v) \in P
        sb == should_be(v, nw, pot)
    IN  IF is_on # sb
        THEN [PORTB |-> IF sb THEN P \cup {LoadBit(v)} ELSE P \ {LoadBit(v)},
              branch |-> "duty"]
        ELSE [PORTB |-> P, branch |-> "none"]

\* TimeChecks with the button program's duty cycle running in OFF as well
TimeChecks_DutyWhileOff(v, P, pot, nw) ==
    CASE IsAC(v) ->
            IF BIT_POWER \in P /\ TimedOut(v, nw, pot)
            THEN [PORTB |-> PowerOff(v, P), branch |-> "timeout"]
            ELSE IF (P \cap {BIT_POWER, BIT_WARN}) = {BIT_POWER} /\ WarnDue(v, nw, pot)
            THEN [PORTB |-> P \cup {BIT_WARN}, branch |-> "warn"]
            ELSE [PORTB |-> P, branch |-> "none"]
      [] v = "IT_button" ->
            IF BIT_LED \in P /\ TimedOut(v, nw, pot)
            THEN [PORTB |-> PowerOff(v, P), branch |-> "timeout"]
            ELSE DutyCycle(v, P, pot, nw)
      [] OTHER ->
            IF TimedOut(v, nw, pot)
            THEN [PORTB |-> PowerOff(v, P), branch |-> "timeout"]
            ELSE DutyCycle(v, P, pot, nw)

\* the rest of the body when no activation was returned: out = [PORTB, branch]
TimeChecks(v, P, pot, nw) ==
    CASE IsAC(v) ->
            IF BIT_POWER \in P /\ TimedOut(v, nw, pot)
            THEN [PORTB |-> PowerOff(v, P), branch |-> "timeout"]
            ELSE IF (P \cap {BIT_POWER, BIT_WARN}) = {BIT_POWER} /\ WarnDue(v, nw, pot)
            THEN [PORTB |-> P \cup {BIT_WARN}, branch |-> "warn"]
            ELSE [PORTB |-> P, branch |-> "none"]
      [] v = "IT_button" ->
            IF BIT_LED \in P /\ TimedOut(v, nw, pot)
            THEN [PORTB |-> PowerOff(v, P), branch |-> "timeout"]
            ELSE IF BIT_LED \in P
            THEN DutyCycle(v, P, pot, nw)
            ELSE [PORTB |-> P, branch |-> "none"]
      [] OTHER ->
            IF TimedOut(v, nw, pot)
            THEN [PORTB |-> PowerOff(v, P), branch |-> "timeout"]
            ELSE DutyCycle(v, P, pot, nw)

\* The main loop's own state.
MainState ==
    [PORTB |-> PORTB, power_on_time |-> power_on_time,
     debounce_time |-> debounce_time, button_state |-> button_state,
     in_debounce |-> in_debounce]

\* the loop body with the power-off and warning tests ahead of the button: an
\* activation is acted upon only in an iteration in which no test succeeds
LoopBody_TimeoutFirst(v, nw, cbnow, status, m) ==
    IF HasButton(v)
    THEN LET cb == check_button(v, cbnow, status,
                       [debounce_time |-> m.debounce_time,
                        button_state |-> m.button_state,
                        in_debounce |-> m.in_debounce])
             t == TimeChecks(v, m.PORTB, m.power_on_time, nw)
         IN  IF cb.ret # 0 /\ t.branch = "none"
             THEN LET b == ButtonPressed(v, m.PORTB, m.power_on_time, nw)
                  IN  [PORTB |-> b.PORTB, power_on_time |-> b.power_on_time,
                       debounce_time |-> cb.debounce_time,
                       button_state |-> cb.button_state,
                       in_debounce |-> cb.in_debounce,
                       btn |-> cb.ret, branch |-> b.branch, path |-> cb.path]
             ELSE [PORTB |-> t.PORTB, power_on_time |-> m.power_on_time,
                   debounce_time |-> cb.debounce_time,
                   button_state |-> cb.button_state,
                   in_debounce |-> cb.in_debounce,
                   btn |-> cb.ret, branch |-> t.branch, path |-> cb.path]
    ELSE LET t == TimeChecks(v, m.PORTB, m.power_on_time, nw)
         IN  [PORTB |-> t.PORTB, power_on_time |-> m.power_on_time,
              debounce_time |-> m.debounce_time, button_state |-> m.button_state,
              in_debounce |-> m.in_debounce, btn |-> 0, branch |-> t.branch,
              path |-> "idle"]

\* One pass through the loop body after `now` was read: nw is `now`, cbnow is
\* check_button's reading of the clock, status the sampled button, m the main
\* loop's state.  The result is the new state with the value check_button
\* returned and the branch taken.
LoopBody(v, nw, cbnow, status, m) ==
    IF HasButton(v)
    THEN LET cb == check_button(v, cbnow, status,
                       [debounce_time |-> m.debounce_time,
                        button_state |-> m.button_state,
                        in_debounce |-> m.in_debounce])
         IN  IF cb.ret # 0
             THEN LET b == ButtonPressed(v, m.PORTB, m.power_on_time, nw)
                  IN  [PORTB |-> b.PORTB, power_on_time |-> b.power_on_time,
                       debounce_time |-> cb.debounce_time,
                       button_state |-> cb.button_state,
                       in_debounce |-> cb.in_debounce,
                       btn |-> cb.ret, branch |-> b.branch, path |-> cb.path]
             ELSE LET t == TimeChecks(v, m.PORTB, m.power_on_time, nw)
                  IN  [PORTB |-> t.PORTB, power_on_time |-> m.power_on_time,
                       debounce_time |-> cb.debounce_time,
                       button_state |-> cb.button_state,
                       in_debounce |-> cb.in_debounce,
                       btn |-> 0, branch |-> t.branch, path |-> cb.path]
    ELSE LET t == TimeChecks(v, m.PORTB, m.power_on_time, nw)
         IN  [PORTB |-> t.PORTB, power_on_time |-> m.power_on_time,
              debounce_time |-> m.debounce_time, button_state |-> m.button_state,
              in_debounce |-> m.in_debounce, btn |-> 0, branch |-> t.branch,
              path |-> "idle"]

(***************************************************************************)
(* The accessors ticks() / millis() / seconds(), instruction by            *)
(* instruction.  rd = [pc, I, sreg_save, src, k, out, held, pend, events,   *)
(* ref, gap]: the position in the accessor ("call": not in it, "read":     *)
(* about to load byte k, "restore": about to leave the atomic block), the  *)
(* global interrupt flag, the SREG saved by the atomic block, the counter  *)
(* read, the bytes loaded so far, the values the counter has held during   *)
(* the call, the timer's interrupt flag waiting for I, the timer events so *)
(* far; the previous reading (which counter, its value, millis_count at    *)
(* the time) and the timer events since it.                                *)
(***************************************************************************)
\* no call in progress, interrupts enabled (after sei())
NoCall ==
    [pc |-> "call", I |-> 1, sreg_save |-> 1, src |-> "s", k |-> 0, out |-> 0,
     held |-> {}, pend |-> FALSE, events |-> 0,
     ref |-> [src |-> "none", val |-> 0, ms |-> 0], gap |-> 0]

\* the counters program v reads: ticks_cnt / millis_cnt, millis_count,
\* seconds_count
Accessors(v) ==
    CASE SkipZero(v) -> {"t"}
      [] Cascade(v) -> {"ms", "s"}
      [] OTHER -> {"s"}

\* sizeof the counter: unsigned long millis_cnt, uint16_t the others
Width(v) == IF v = "AC_millis" THEN 4 ELSE 2

\* byte k of the value x
Byte(x, k) == (x \div (256 ^ k)) % 256

\* an atomic block that leaves the interrupts enabled
AtomicEnter_NoCli(I) == I

\* ATOMIC_BLOCK(ATOMIC_RESTORESTATE) on entry: cli(), the I flag after it
AtomicEnter(I) == 0

(***************************************************************************)
(* Initial state: main() up to sei().                                      *)
(***************************************************************************)
Init ==
    /\ variant \in Variants
    /\ ticks_cnt = IF SkipZero(variant) THEN 1 ELSE 0
    /\ millis_count = 0
    /\ seconds_count = 0
    /\ total = 0
    /\ power_on_time = 0
    /\ PORTB = CASE variant = "IT_boot" -> {BIT_LOAD, BIT_POWER}
                 [] variant = "IT_button" -> {}
                 [] OTHER -> {BIT_BUTTON}
    /\ PINB \in IF HasButton(variant) THEN {0, 1} ELSE {1}
    /\ debounce_time = 0
    /\ button_state = 0
    /\ in_debounce = 0
    /\ now = 0
    /\ btn = 0
    /\ branch = "none"
    /\ pc = "loop"
    /\ wdt_fed = FALSE
    /\ since = SinceCap
    /\ acts = 0
    /\ waiting = FALSE
    /\ fine = 0
    /\ flips = 0
    /\ rolls = 0
    /\ dozes = 0
    /\ rd = NoCall

(***************************************************************************)
(* The main loop.                                                          *)
(***************************************************************************)
\* AfterBody with a final loop that does not feed the watchdog
AfterBody_Halt(v, br) == IF v = "IT_boot" /\ br = "timeout" THEN "halt" ELSE "loop"

\* AfterBody without the final loop: the boot-on program goes on iterating
AfterBody_Resume(v, br) == "loop"

\* where main goes after the body: back to the head of while(1), or into
\* while(1) wdt_reset(); after the boot-on program's power-off
AfterBody(v, br) == IF v = "IT_boot" /\ br = "timeout" THEN "dead" ELSE "loop"

\* wdt_reset(); now = ticks() / millis() / seconds();
ReadNow ==
    /\ pc = "loop"
    /\ wdt_fed' = TRUE
    /\ now' = MainClock(variant, Counters)
    /\ pc' = "check"
    /\ UNCHANGED <<variant, total, ticks_cnt, millis_count,
                   seconds_count, power_on_time,
                   PORTB, PINB, debounce_time, button_state, in_debounce, btn,
                   branch, since, acts, waiting, fine, flips, rolls, dozes, rd>>

\* the rest of the iteration: check_button() (which reads the clock and the
\* pin) and the branch it selects, up to the `continue` / end of the body
Iterate ==
    /\ pc = "check"
    /\ \E r \in {LoopBody(variant, now, ButtonClock(variant, Counters), 1 - PINB,
                          MainState)} :
       LET sampled == r.button_state # button_state
       IN  /\ PORTB' = r.PORTB
           /\ power_on_time' = r.power_on_time
           /\ debounce_time' = r.debounce_time
           /\ button_state' = r.button_state
           /\ in_debounce' = r.in_debounce
           /\ btn' = r.btn
           /\ branch' = r.branch
           /\ pc' = AfterBody(variant, r.branch)
           /\ wdt_fed' = FALSE
           /\ since' = IF sampled THEN 0 ELSE since
           /\ acts' = IF sampled THEN 0
                      ELSE IF r.btn # 0 THEN Min(acts + 1, 2) ELSE acts
           /\ waiting' = CASE r.path = "change" -> TRUE
                            [] r.path = "report" -> FALSE
                            [] OTHER -> waiting
    /\ UNCHANGED <<variant, total, ticks_cnt, millis_count,
                   seconds_count, PINB, now,
                   fine, flips, rolls, dozes, rd>>

\* while(1) wdt_reset(); of the boot-on program after power-off
WaitToDie ==
    /\ pc = "dead"
    /\ wdt_fed' = TRUE
    /\ UNCHANGED <<variant, total, ticks_cnt, millis_count,
                   seconds_count, power_on_time,
                   PORTB, PINB, debounce_time, button_state, in_debounce, now, btn,
                   branch, pc, since, acts, waiting, fine, flips, rolls, dozes, rd>>

(***************************************************************************)
(* The environment: the button and the timer.                              *)
(***************************************************************************)
\* the button is pushed or released
PinChange ==
    /\ HasButton(variant)
    /\ flips < MaxFlips
    /\ PINB' = 1 - PINB
    /\ flips' = flips + 1
    /\ UNCHANGED <<dozes, rd, wdt_fed, variant, total, ticks_cnt, millis_count,
                   seconds_count, power_on_time,
                   PORTB, debounce_time, button_state, in_debounce, now, btn,
                   branch, pc, since, acts, waiting, fine, rolls>>

\* the counters become c after n more timer events
Advance(c, n) ==
    /\ ticks_cnt' = c.t
    /\ millis_count' = c.ms
    /\ seconds_count' = c.s
    /\ total' = (total + n) % EventsWrap
    /\ since' = Min(since + n, SinceCap)

\* one timer event, at any point of the main loop
Tick ==
    /\ fine < MaxFine
    /\ ticks_cnt < IntMax
    /\ \E c \in {ISR(variant, Counters)} : Advance(c, 1)
    /\ fine' = fine + 1
    /\ UNCHANGED <<dozes, rd, wdt_fed, variant, power_on_time, PORTB, PINB, debounce_time,
                   button_state, in_debounce, now, btn, branch, pc, acts, waiting, flips,
                   rolls>>

\* an iteration of the loop that reads the counters c changes nothing
Quiet(c) ==
    \E cc \in {c} : \E m \in {MainState} :
    \E r \in {LoopBody(variant, MainClock(variant, cc), ButtonClock(variant, cc),
                       1 - PINB, m)} :
        /\ r.PORTB = PORTB
        /\ r.power_on_time = power_on_time
        /\ r.debounce_time = debounce_time
        /\ r.button_state = button_state
        /\ r.in_debounce = in_debounce
        /\ r.btn = 0

\* the smallest element of a set of numbers (0 when it is empty)
Least(T) == IF T = {} THEN 0 ELSE CHOOSE k \in T : \A j \in T : k <= j

\* The differences now - power_on_time, and the delta of check_button, at which
\* each test of the loop first succeeds, found with the tests themselves among
\* the values next to the configured ones (0 when the test never succeeds).
OffAtTable ==
    [v \in Variants |->
        Least({k \in {POWER_OFF_TIME(v), POWER_OFF_TIME(v) + 1,
                      POWER_OFF_TIME(v) * TicksPerMinute,
                      (POWER_OFF_TIME(v) + 1) * TicksPerMinute} :
                 TimedOut(v, k, 0) /\ ~TimedOut(v, k - 1, 0)})]

WarnAtTable ==
    [v \in Variants |->
        Least({k \in {WARN_TIME(v), WARN_TIME(v) + 1, WARN_TIME(v) * TicksPerMinute,
                      (WARN_TIME(v) + 1) * TicksPerMinute} :
                 WarnDue(v, k, 0) /\ ~WarnDue(v, k - 1, 0)})]

DebounceAtTable ==
    [v \in Variants |->
        Least({k \in {DEBOUNCE_TIME(v), DEBOUNCE_TIME(v) + 1} :
                 DebounceElapsed(v, k, 0) /\ ~DebounceElapsed(v, k - 1, 0)})]

OffAt(v) == OffAtTable[v]

WarnAt(v) == WarnAtTable[v]

DebounceAt(v) == DebounceAtTable[v]

\* POWER_OFF_TIME and WARN_TIME ("Turn off after 30 minutes", "6 hours") in the
\* unit of `now`: AC_Timer.c counts tenths of a second and configures minutes
NominalOff(v) ==
    IF v = "AC_tenths" THEN POWER_OFF_TIME(v) * TicksPerMinute ELSE POWER_OFF_TIME(v)

NominalWarn(v) ==
    IF v = "AC_tenths" THEN WARN_TIME(v) * TicksPerMinute ELSE WARN_TIME(v)

\* timer events until the main clock has advanced by k more units
EventsFor(v, c, k) ==
    IF Cascade(v) THEN k * MillisPerSecond - c.ms ELSE k

\* The numbers of timer events after which, with the button left alone, one of
\* the loop's tests may first succeed: the debounce window, the power-off and
\* warning thresholds, the end of the on-phase of the duty cycle; those after
\* which now - power_on_time is the configured power-off or warning time; and,
\* in the warning stage, the one a debounce window before the power-off (a
\* press sampled then is reported as the power-off threshold is reached).
Deadlines(v, c) ==
    LET el == Sub(v, MainClock(v, c), power_on_time)
        ph == el % DutyPeriod
    IN  (IF HasButton(v) /\ Awaiting(v, debounce_time, in_debounce) /\ DebounceAt(v) > 0
         THEN {DebounceAt(v) - (IF Cascade(v)
                                THEN (c.ms - debounce_time) % MillisPerSecond
                                ELSE Sub(v, c.t, debounce_time))}
         ELSE {})
        \cup
        (IF OnBit(v) \in PORTB /\ OffAt(v) > 0
         THEN {EventsFor(v, c, OffAt(v) - el)}
         ELSE {})
        \cup
        (IF IsAC(v) /\ BIT_POWER \in PORTB /\ BIT_WARN \notin PORTB /\ WarnAt(v) > 0
         THEN {EventsFor(v, c, WarnAt(v) - el)}
         ELSE {})
        \cup
        (IF HasDuty(v) /\ OnBit(v) \in PORTB /\ ph < DutyOn(v)
         THEN {EventsFor(v, c, DutyOn(v) - ph)}
         ELSE {})
        \cup
        (IF IsAC(v) /\ BIT_POWER \in PORTB
         THEN {EventsFor(v, c, NominalOff(v) - el), EventsFor(v, c, NominalWarn(v) - el)}
         ELSE {})
        \cup
        (IF /\ IsAC(v) /\ BIT_WARN \in PORTB /\ OffAt(v) > 0
            /\ button_state = 0 /\ ~Awaiting(v, debounce_time, in_debounce)
         THEN {EventsFor(v, c, OffAt(v) - el) - DebounceAt(v)}
         ELSE {})

\* The number of timer events after which the next period of the duty cycle
\* begins.
PeriodStart(v, c) ==
    LET el == Sub(v, MainClock(v, c), power_on_time)
        ph == el % DutyPeriod
    IN  IF HasDuty(v) /\ OnBit(v) \in PORTB /\ ph >= DutyOn(v)
        THEN {EventsFor(v, c, DutyPeriod - ph)}
        ELSE {}

\* Where an idle stretch towards the deadlines D stops: at the first deadline,
\* or one event before it where the skip over 0 brings it one event nearer
\* (the test of the loop itself finds that).
Stop(D) ==
    LET d0 == Least(D)
    IN  IF d0 >= 2 /\ ~Quiet(After(variant, Counters, d0 - 1)) THEN d0 - 1 ELSE d0

\* n timer events during which the main loop runs at least once per event and
\* the button is left alone: the loop is between two iterations, and the
\* counters stop at the first value at which an iteration will act (n = d), or
\* one event before it (n = d - 1).  Up to then no iteration changes anything,
\* or (once MaxRolls periods of the duty cycle were entered one by one) the
\* iterations in between switch the load on and off with the duty cycle and
\* leave it, one event before d, as it is now; where they would not, the next
\* period is entered whatever the count.
\* Stopping one event short counts, like Tick, against MaxFine.
Idle ==
    /\ pc = "loop"
    /\ UNCHANGED <<dozes, rd, wdt_fed, variant, power_on_time, PORTB, PINB, debounce_time,
                   button_state, in_debounce, now, btn, branch, pc, acts, waiting, flips>>
    /\ Quiet(Counters)
    /\ \E T \in {{d \in Deadlines(variant, Counters) : d >= 1}} :
       \E P \in {IF \/ rolls < MaxRolls
                    \/ T = {}
                    \/ ~Quiet(After(variant, Counters, Stop(T) - 1))
                 THEN {d \in PeriodStart(variant, Counters) : d >= 1} ELSE {}} :
       \E D \in {T \cup P} :
          /\ D # {}
          /\ \E d \in {Stop(D)} :
                /\ Quiet(After(variant, Counters, d - 1))
                /\ \E n \in {d - 1, d} :
                      /\ n >= 1
                      /\ n < d => fine < MaxFine
                      /\ fine' = IF n < d THEN fine + 1 ELSE fine
                      /\ ticks_cnt + n < IntMax
                      /\ \E c \in {After(variant, Counters, n)} : Advance(c, n)
                /\ rolls' = IF Least(D) \in P THEN Min(rolls + 1, MaxRolls) ELSE rolls

\* The number of timer events after which the counter main reads is at its
\* last value before the 16-bit wrap (with millis_count at its last value
\* before the rollover).
BeforeWrap(v, c) ==
    IF Cascade(v)
    THEN (Wrap16 - 1 - c.s) * MillisPerSecond + (MillisPerSecond - 1 - c.ms)
    ELSE Wrap16 - 1 - MainClock(v, c)

\* A long stretch of timer events while the program is off, no report of the
\* button is pending and the button is left alone: no test of the loop
\* depends on the clock then, and the iterations in between change nothing
\* (in the boot-on program's final loop there are none).
Doze ==
    /\ pc \in {"loop", "dead"}
    /\ UNCHANGED <<rd, wdt_fed, variant, power_on_time, PORTB, PINB, debounce_time,
                   button_state, in_debounce, now, btn, branch, pc, acts, waiting, fine,
                   flips, rolls>>
    /\ dozes < MaxDoze
    /\ OnBit(variant) \notin PORTB
    /\ ~Awaiting(variant, debounce_time, in_debounce)
    /\ pc = "loop" => Quiet(Counters)
    /\ \E n \in {BeforeWrap(variant, Counters)} :
          /\ n >= 1
          /\ \E c \in {After(variant, Counters, n)} : Advance(c, n)
    /\ dozes' = dozes + 1

Next ==
    \/ Doze
    \/ ReadNow
    \/ Iterate
    \/ WaitToDie
    \/ PinChange
    \/ Tick
    \/ Idle

Spec == Init /\ [][Next]_vars

\* The main loop never waits, and the timer keeps firing whatever the loop does.
SpecLive ==
    /\ Init
    /\ [][Next]_vars
    /\ WF_vars(ReadNow)
    /\ WF_vars(Iterate)
    /\ WF_vars(WaitToDie)
    /\ SF_vars(Idle)

(***************************************************************************)
(* A call of an accessor against the timer interrupt: the counters start   *)
(* next to the values at which a byte carries into the next one.           *)
(***************************************************************************)
\* timer events during the calls of an accessor
MaxEvents == 2

\* the counter the call in progress reads
Source == Counters[rd.src]

\* the accessor is entered: the atomic block saves SREG and disables the
\* interrupts
Call ==
    /\ rd.pc = "call"
    /\ \E a \in Accessors(variant) :
          rd' = [rd EXCEPT !.pc = "read", !.sreg_save = rd.I,
                           !.I = AtomicEnter(rd.I), !.src = a, !.k = 0,
                           !.out = 0, !.held = {Counters[a]}]
    /\ UNCHANGED <<variant, total, ticks_cnt, millis_count,
                   seconds_count, power_on_time,
                   PORTB, PINB, debounce_time, button_state, in_debounce, now, btn,
                   branch, pc, wdt_fed, since, acts, waiting, fine, flips, rolls, dozes>>

\* out = counter: one byte of it is loaded
ReadByte ==
    /\ rd.pc = "read"
    /\ rd' = [rd EXCEPT !.out = rd.out + Byte(Source, rd.k) * (256 ^ rd.k),
                        !.k = rd.k + 1,
                        !.pc = IF rd.k + 1 = Width(variant) THEN "restore" ELSE "read"]
    /\ UNCHANGED <<variant, total, ticks_cnt, millis_count,
                   seconds_count, power_on_time,
                   PORTB, PINB, debounce_time, button_state, in_debounce, now, btn,
                   branch, pc, wdt_fed, since, acts, waiting, fine, flips, rolls, dozes>>

\* the atomic block is left (SREG restored) and out is returned
Return ==
    /\ rd.pc = "restore"
    /\ now' = rd.out
    /\ rd' = [rd EXCEPT !.pc = "call", !.I = rd.sreg_save,
                        !.ref = [src |-> rd.src, val |-> rd.out, ms |-> millis_count],
                        !.gap = 0]
    /\ UNCHANGED <<variant, total, ticks_cnt, millis_count,
                   seconds_count, power_on_time,
                   PORTB, PINB, debounce_time, button_state, in_debounce, btn,
                   branch, pc, wdt_fed, since, acts, waiting, fine, flips, rolls, dozes>>

\* the interrupt handler runs: the counters become c
Handler(c) ==
    /\ ticks_cnt' = c.t
    /\ millis_count' = c.ms
    /\ seconds_count' = c.s
    /\ total' = (total + 1) % EventsWrap
    /\ rd' = [rd EXCEPT !.pend = FALSE,
                        !.events = Min(rd.events + 1, MaxEvents),
                        !.gap = Min(rd.gap + 1, MaxEvents),
                        !.held = IF rd.pc = "call" THEN rd.held
                                 ELSE rd.held \cup {c[rd.src]}]

\* the timer's compare match while the interrupts are enabled: the handler
\* runs at once
Interrupt ==
    /\ rd.events < MaxEvents
    /\ rd.I = 1
    /\ Handler(ISR(variant, Counters))
    /\ UNCHANGED <<variant, power_on_time, PORTB, PINB, debounce_time, button_state,
                   in_debounce, now, btn, branch, pc, wdt_fed, since, acts, waiting, fine,
                   flips, rolls, dozes>>

\* the timer's compare match while the interrupts are disabled: the interrupt
\* flag stays set
Latch ==
    /\ rd.events < MaxEvents
    /\ rd.I = 0
    /\ ~rd.pend
    /\ rd' = [rd EXCEPT !.pend = TRUE]
    /\ UNCHANGED <<variant, total, ticks_cnt, millis_count,
                   seconds_count, power_on_time,
                   PORTB, PINB, debounce_time, button_state, in_debounce, now, btn,
                   branch, pc, wdt_fed, since, acts, waiting, fine, flips, rolls, dozes>>

\* the interrupts are enabled again with the flag set: the handler runs
Deliver ==
    /\ rd.I = 1
    /\ rd.pend
    /\ Handler(ISR(variant, Counters))
    /\ UNCHANGED <<variant, power_on_time, PORTB, PINB, debounce_time, button_state,
                   in_debounce, now, btn, branch, pc, wdt_fed, since, acts, waiting, fine,
                   flips, rolls, dozes>>

\* The program some time after its start, the outputs as main() left them:
\* the counters are next to a carry from one byte into the next.
InitRead ==
    /\ variant \in Variants
    /\ ticks_cnt \in CASE variant = "AC_tenths" -> {1, 255, 65535}
                       [] variant = "AC_millis" -> {1, 255, 65535, 16777215}
                       [] OTHER -> {0}
    /\ millis_count \in IF Cascade(variant) THEN {0, 255, 999} ELSE {0}
    /\ seconds_count \in CASE SkipZero(variant) -> {0}
                           [] variant = "IT_boot" -> {0, 255}
                           [] OTHER -> {0, 255, 65535}
    /\ total = IF Cascade(variant)
               THEN seconds_count * MillisPerSecond + millis_count
               ELSE IF SkipZero(variant) THEN ticks_cnt - 1 ELSE seconds_count
    /\ power_on_time = 0
    /\ PORTB = CASE variant = "IT_boot" -> {BIT_LOAD, BIT_POWER}
                 [] variant = "IT_button" -> {}
                 [] OTHER -> {BIT_BUTTON}
    /\ PINB = 1
    /\ debounce_time = 0
    /\ button_state = 0
    /\ in_debounce = 0
    /\ now = 0
    /\ btn = 0
    /\ branch = "none"
    /\ pc = "loop"
    /\ wdt_fed = FALSE
    /\ since = SinceCap
    /\ acts = 0
    /\ waiting = FALSE
    /\ fine = 0
    /\ flips = 0
    /\ rolls = 0
    /\ dozes = 0
    /\ rd = NoCall

NextRead ==
    \/ Call
    \/ ReadByte
    \/ Return
    \/ Interrupt
    \/ Latch
    \/ Deliver

SpecRead == InitRead /\ [][NextRead]_vars

(***************************************************************************)
(* The claims.                                                             *)
(***************************************************************************)
\* the step that ends an iteration in which check_button returned an activation
ActivationStep == pc = "check" /\ pc' # "check" /\ btn' # 0

\* the step that ends an iteration in which check_button returned 0
TimeStep == pc = "check" /\ pc' # "check" /\ btn' = 0

\* C1: in the AC-timer programs an iteration that processes an activation while
\* the load output is off ends with the load on, the warning off and
\* power_on_time equal to the iteration's `now`.
C1_PressFromOffTurnsOn ==
    [][(ActivationStep /\ IsAC(variant) /\ BIT_POWER \notin PORTB)
        => (/\ BIT_POWER \in PORTB'
            /\ BIT_WARN \notin PORTB'
            /\ power_on_time' = now)]_vars

\* an activation was processed from OFF some time after start
C1_Witness ==
    /\ IsAC(variant) /\ pc = "loop" /\ btn # 0 /\ branch = "on"
    /\ BIT_POWER \in PORTB /\ power_on_time = now /\ now > 1

\* C2: in the AC-timer programs an iteration that processes an activation in
\* plain ON (load on, warning off) ends with load and warning both off.
C2_PressInOnTurnsOff ==
    [][(ActivationStep /\ IsAC(variant) /\ BIT_POWER \in PORTB /\ BIT_WARN \notin PORTB)
        => (BIT_POWER \notin PORTB' /\ BIT_WARN \notin PORTB')]_vars

\* an activation was processed in plain ON
C2_Witness ==
    /\ IsAC(variant) /\ pc = "loop" /\ btn # 0 /\ branch = "off"
    /\ BIT_POWER \notin PORTB /\ BIT_WARN \notin PORTB

\* C3: in the AC-timer programs an iteration that processes an activation while
\* the warning output is on leaves the load on, clears the warning and sets
\* power_on_time to the iteration's `now`.
C3_PressInWarningSnoozes ==
    [][(ActivationStep /\ IsAC(variant) /\ BIT_WARN \in PORTB)
        => (/\ BIT_POWER \in PORTB'
            /\ BIT_WARN \notin PORTB'
            /\ power_on_time' = now)]_vars

\* an activation was processed in WARNING
C3_Witness ==
    /\ IsAC(variant) /\ pc = "loop" /\ btn # 0 /\ branch = "snooze"
    /\ BIT_POWER \in PORTB /\ BIT_WARN \notin PORTB /\ power_on_time = now

\* C7: in the programs with a warning stage the warning output is on only
\* while the load output is on.
C7_WarnImpliesPower ==
    IsAC(variant) => (BIT_WARN \in PORTB => BIT_POWER \in PORTB)

\* the warning output is on, and the timeout has switched it off at least once
C7_Witness == IsAC(variant) /\ BIT_WARN \in PORTB /\ BIT_POWER \in PORTB

\* now - power_on_time as the iteration at hand computes it
Elapsed == Sub(variant, now, power_on_time)

\* C4: with the load on since t0 and no activation, the load stays on in an
\* iteration that observes now - t0 = off_threshold - 1, and an iteration that
\* observes now - t0 = off_threshold switches load and warning off (the
\* threshold is reached, not exceeded), in every program with a button.
C4_OffWhenThresholdReached ==
    [][(TimeStep /\ HasButton(variant) /\ OnBit(variant) \in PORTB)
        => (/\ Elapsed = NominalOff(variant) - 1 => OnBit(variant) \in PORTB'
            /\ Elapsed = NominalOff(variant)
                 => PORTB' \cap {BIT_POWER, BIT_WARN, BIT_LED} = {})]_vars

\* C5: in plain ON an iteration without activation that observes
\* now - power_on_time >= warn_threshold asserts the warning and leaves the
\* load on, and none that observes less asserts it.
C5_WarnWhenThresholdReached ==
    [][(TimeStep /\ IsAC(variant) /\ BIT_POWER \in PORTB /\ BIT_WARN \notin PORTB)
        => (/\ Elapsed >= NominalWarn(variant)
                 => (BIT_WARN \in PORTB' /\ BIT_POWER \in PORTB')
            /\ Elapsed < NominalWarn(variant) => BIT_WARN \notin PORTB')]_vars

\* C6: in every program with a button, once the load output (or the ON
\* indicator of the Intellitimer) is on and no further activation is returned,
\* the timeout switches it off, the timer firing and the loop running fairly.
C6_BoundedOnTime ==
    (HasButton(variant) /\ PORTB \cap {BIT_POWER, BIT_LED} # {})
        ~> (PORTB \cap {BIT_POWER, BIT_LED} = {} \/ btn # 0)

\* the timeout has switched the load off
C6_Witness ==
    /\ HasButton(variant) /\ pc = "loop" /\ branch = "timeout" /\ btn = 0
    /\ PORTB \cap {BIT_POWER, BIT_LED} = {}

\* a call of check_button that finds the button pressed, as at the latest
\* sampled change, and the report of that change still pending
PendingPressCall ==
    /\ pc = "check" /\ pc' # "check"
    /\ HasButton(variant)
    /\ PINB = 0 /\ button_state = 1
    /\ Awaiting(variant, debounce_time, in_debounce)

\* C8 as stated: a press that has stayed pressed for the debounce threshold
\* (DEBOUNCE_TIME timer events since the sampled change) is reported.
C8_HeldForThresholdActivates ==
    [][(PendingPressCall /\ since >= DEBOUNCE_TIME(variant)) => btn' # 0]_vars

\* C8: check_button returns at most one activation per sampled change of
\* level, however long the button is held; a sampled press is reported once
\* it has stayed pressed for as long as the program's own test asks (more than
\* DEBOUNCE_TIME where the test is >, DEBOUNCE_MILLIS where it is >=), and it
\* does get that far unless the sampled level changes again first.
C8_OneActivationPerPress ==
    /\ [](HasButton(variant) => acts <= 1)
    /\ [][(PendingPressCall /\ since >= DebounceAt(variant)) => btn' # 0]_vars
    /\ (HasButton(variant) /\ button_state = 1
          /\ Awaiting(variant, debounce_time, in_debounce))
         ~> (acts = 1 \/ button_state = 0)

\* the activation was returned and the button is still held long after
C8_Witness ==
    /\ HasButton(variant) /\ button_state = 1 /\ PINB = 0 /\ acts = 1
    /\ ~Awaiting(variant, debounce_time, in_debounce)
    /\ since = SinceCap /\ btn = 0

\* C9: check_button returns an activation only for a pressed level that was
\* sampled unchanged for the debounce time since the latest sampled change:
\* every sampled change restarts the window.
C9_ActivationTimedFromLastChange ==
    [][ActivationStep
        => (/\ PINB = 0
            /\ button_state = 1
            /\ button_state' = 1
            /\ since >= DEBOUNCE_TIME(variant))]_vars

\* the seconds program of part_001: pressed at start, a release and a press
\* sampled before the first window has run out (debounce_time is the time of
\* that second press), and the first activation one window after it
C9_Witness ==
    /\ variant = "AC_seconds" /\ pc = "loop" /\ btn # 0 /\ branch = "on"
    /\ seconds_count = 0 /\ flips = 2
    /\ debounce_time > MaxFine
    /\ debounce_time < DebounceAt(variant)
    /\ since = DebounceAt(variant)

\* C10: in the Intellitimer programs an iteration without activation or
\* timeout that ends in the ON period leaves the load output on exactly when
\* (now - power_on_time) mod 223 is below the on-duration (60 s; 120 s counted
\* from boot in the boot-on program).
C10_DutyCycle ==
    [][(TimeStep /\ HasDuty(variant) /\ OnBit(variant) \in PORTB')
        => (LoadBit(variant) \in PORTB'
              <=> ((Sub16(now, power_on_time) % 223)
                     < (IF variant = "IT_boot" THEN 120 ELSE 60)))]_vars

\* the button program, switched on 60 s or later after start, has begun its
\* second period: the load is switched on again
C10_Witness ==
    /\ variant = "IT_button" /\ pc = "loop" /\ branch = "duty"
    /\ power_on_time > 0 /\ Sub16(now, power_on_time) >= DutyPeriod
    /\ BIT_POWER \in PORTB /\ BIT_LED \in PORTB

\* C11: the boot-on program starts with the system power and the load
\* switched on, and the system power is off only once the loop has read
\* seconds() >= POWER_OFF_TIME and gone to its final loop.
C11_BootOnHoldsPower ==
    /\ variant = "IT_boot" => {BIT_POWER, BIT_LOAD} \subseteq PORTB
    /\ [](variant = "IT_boot" /\ BIT_POWER \notin PORTB
            => pc = "dead" /\ now >= POWER_OFF_TIME(variant))

\* the boot-on program one second before POWER_OFF_TIME, the power still on
C11_Witness ==
    /\ variant = "IT_boot" /\ pc = "loop"
    /\ now = POWER_OFF_TIME(variant) - 1
    /\ BIT_POWER \in PORTB

\* C12: in every program the step that leaves the head of the loop feeds the
\* watchdog, and the watchdog is fed again and again for ever: every pass
\* through the body comes back to the head, and the boot-on program's final
\* loop feeds it too.
C12_WatchdogFed ==
    /\ [][pc = "loop" /\ pc' # "loop" => wdt_fed']_vars
    /\ []<>wdt_fed

\* the boot-on program has switched off and feeds the watchdog in its final loop
C12_Witness ==
    /\ variant = "IT_boot" /\ pc = "dead" /\ wdt_fed
    /\ BIT_POWER \notin PORTB

\* the load, warning and ON-indicator outputs
Outputs == {BIT_POWER, BIT_WARN, BIT_LED}

\* C13: every program with a button starts with the load, warning and
\* indicator outputs off, and a step takes them from all off to some of them on
\* only by processing an activation: until the first activation they are off,
\* whatever time passes.
C13_OffUntilFirstActivation ==
    /\ HasButton(variant) => PORTB \cap Outputs = {}
    /\ [][(HasButton(variant) /\ PORTB \cap Outputs = {} /\ PORTB' \cap Outputs # {})
            => ActivationStep]_vars

\* the button was never touched, the counter has run up to its wrap, and the
\* outputs are off
C13_Witness ==
    /\ HasButton(variant) /\ pc = "loop"
    /\ PINB = 1 /\ flips = 0 /\ dozes >= 1
    /\ BeforeWrap(variant, Counters) = 0
    /\ PORTB \cap Outputs = {}

\* C14: the timer interrupt never runs between the entry of the atomic block
\* of ticks() / millis() / seconds() and its exit, so the counters do not
\* change between the byte loads, and the value returned is a value the
\* counter held at some instant of the call.
C14_AtomicRead ==
    /\ [][rd.pc # "call" => Counters' = Counters]_vars
    /\ [][(rd.pc = "restore" /\ rd'.pc = "call") => now' \in rd.held]_vars

\* ticks() has loaded both bytes of 255 and a timer event is waiting for the
\* interrupts to be enabled again
C14_Witness ==
    /\ variant = "AC_tenths" /\ rd.pc = "restore" /\ rd.pend
    /\ rd.out = 255 /\ ticks_cnt = 255

\* the call in progress returns a second reading of the tick or seconds counter
SecondReading ==
    /\ rd.pc = "restore" /\ rd'.pc = "call"
    /\ rd.ref.src = rd.src /\ rd.src # "ms"

\* what the counter read has counted since the previous reading: timer events,
\* or the seconds they complete where millis_count cascades into seconds_count
TrueElapsed ==
    IF Cascade(variant) THEN (rd.ref.ms + rd.gap) \div MillisPerSecond ELSE rd.gap

\* the number of values the counter read runs through
Period ==
    CASE variant = "AC_tenths" -> Wrap16 - 1
      [] variant = "AC_millis" -> IntMax
      [] OTHER -> Wrap16

\* C15: for two readings a and then b of the tick counter or of the seconds
\* counter, the unsigned subtraction b - a in the counter's width is the number
\* of timer events (seconds, for the seconds counter) between the two
\* readings, modulo the counter's period, also when the counter wrapped
\* between them.
C15_ElapsedIsEventCount ==
    [][SecondReading
        => Sub(variant, rd.out, rd.ref.val) % Period = TrueElapsed % Period]_vars

\* the same for the plain-wrap seconds counter alone, which does hold: a wrap of
\* seconds_count from 65535 to 0 is one second and 0 - 65535 is 1
C15_SecondsElapsed ==
    [][(SecondReading /\ ~SkipZero(variant))
        => Sub16(rd.out, rd.ref.val) = TrueElapsed % Wrap16]_vars

\* C16: in the skip-zero programs check_button returns an activation only
\* when more than DEBOUNCE_TIME timer events have passed since the latest
\* sampled change of level, also across the wrap of the counter; in the
\* programs with millis_count it returns the activation of a pending press
\* exactly when DEBOUNCE_MILLIS events or more have passed (never at 49), also
\* across the rollover of millis_count.
C16_DebounceBoundary ==
    /\ [][(ActivationStep /\ SkipZero(variant)) => since > DEBOUNCE_TIME(variant)]_vars
    /\ [][(ActivationStep /\ Cascade(variant)) => since >= DEBOUNCE_TIME(variant)]_vars
    /\ [][(PendingPressCall /\ Cascade(variant))
            => (btn' # 0 <=> since >= DEBOUNCE_TIME(variant))]_vars

\* the half of it about the programs with millis_count, which does hold
C16_MillisBoundary ==
    /\ [][(ActivationStep /\ Cascade(variant)) => since >= DEBOUNCE_TIME(variant)]_vars
    /\ [][(PendingPressCall /\ Cascade(variant))
            => (btn' # 0 <=> since >= DEBOUNCE_TIME(variant))]_vars

\* a press sampled in the last millisecond before the rollover of
\* millis_count, reported 50 ms later
C16_MillisWitness ==
    /\ Cascade(variant) /\ pc = "loop" /\ btn # 0
    /\ debounce_time = MillisPerSecond - 1
    /\ millis_count = DEBOUNCE_TIME(variant) - 1
    /\ since = DEBOUNCE_TIME(variant)

\* C17: in the skip-zero programs the tick counter is never 0 between two runs
\* of the interrupt handler (whenever main can read it), and debounce_time is
\* 0 exactly when no sampled change of level is waiting for its debounce
\* window.
C17_SkipZeroSentinel ==
    SkipZero(variant) =>
        /\ ticks_cnt # 0
        /\ (debounce_time = 0 <=> ~waiting)

\* the counter has wrapped from 65535 to 1 while a sampled change is waiting
C17_Witness ==
    /\ SkipZero(variant) /\ dozes >= 1 /\ ticks_cnt = 1
    /\ waiting /\ debounce_time # 0

\* C18: in the programs with millis_count, between two runs of the interrupt
\* handler millis_count is in 0..999, and after n timer events millis_count is
\* n mod 1000 and seconds_count is floor(n / 1000) mod 2^16: seconds_count
\* goes up by one at every 1000th event and at no other.
C18_Cascade ==
    Cascade(variant) =>
        /\ millis_count \in 0 .. (MillisPerSecond - 1)
        /\ millis_count = total % MillisPerSecond
        /\ seconds_count = (total \div MillisPerSecond) % Wrap16

\* the handler has taken millis_count from 999 to 0 and seconds_count from
\* 65535 to 0
C18_Witness ==
    /\ Cascade(variant) /\ rd.events >= 1
    /\ millis_count = 0 /\ seconds_count = 0 /\ total = 0

\* one timer event in the closed form of After is the interrupt handler
C18_AfterIsHandler == After(variant, Counters, 1) = ISR(variant, Counters)

\* C19: in the programs with a warning stage, the loop running at least once
\* per timer event, the power-off test switches the load off only from a state
\* in which the warning output is on: the warning has been asserted before the
\* timeout, which never takes the outputs from load on / warning off to load
\* off.
C19_NoSkippedWarning ==
    [][(TimeStep /\ IsAC(variant) /\ BIT_POWER \in PORTB /\ BIT_POWER \notin PORTB')
        => (BIT_WARN \in PORTB /\ branch' = "timeout")]_vars

\* the warning is on, no report of the button is pending, and the iteration
\* at hand has read the `now` at which the power-off test succeeds
C19_Witness ==
    /\ IsAC(variant) /\ pc = "check"
    /\ PORTB \cap {BIT_POWER, BIT_WARN} = {BIT_POWER, BIT_WARN}
    /\ TimedOut(variant, now, power_on_time)
    /\ PINB = 1 /\ button_state = 0
    /\ ~Awaiting(variant, debounce_time, in_debounce)

\* C20: in the Intellitimer's button program the load output is on only while
\* the ON indicator BIT_LED is on; an iteration without activation that finds
\* the indicator on and POWER_OFF_TIME passed switches load and indicator off,
\* whatever the phase of the duty cycle; and with the indicator off only an
\* activation switches the load on again.
C20_DutyWithinTimeout ==
    /\ [](variant = "IT_button" => (BIT_POWER \in PORTB => BIT_LED \in PORTB))
    /\ [][(TimeStep /\ variant = "IT_button" /\ BIT_LED \in PORTB
             /\ Sub16(now, power_on_time) >= POWER_OFF_TIME(variant))
            => PORTB' \cap {BIT_POWER, BIT_LED} = {}]_vars
    /\ [][(variant = "IT_button" /\ BIT_LED \notin PORTB /\ BIT_POWER \in PORTB')
            => ActivationStep]_vars

\* the button program was switched on, has timed out, and an iteration long
\* after has read a `now` in the on-phase of the duty cycle: the load stays off
C20_Witness ==
    /\ variant = "IT_button" /\ pc = "loop" /\ acts = 1 /\ dozes >= 1
    /\ PORTB \cap {BIT_POWER, BIT_LED} = {}
    /\ branch = "none"
    /\ (Sub16(now, power_on_time) % DutyPeriod) < DutyOn(variant)
    /\ now = seconds_count

\* C21: an iteration in which check_button finds the button released returns
\* no activation, whatever it was waiting for: it leaves power_on_time alone,
\* and the outputs are changed by the power-off, warning and duty-cycle tests
\* only, as in an iteration without any button.
C21_ReleaseIsSilent ==
    [][(pc = "check" /\ pc' # "check" /\ HasButton(variant) /\ PINB = 1)
        => (/\ btn' = 0
            /\ power_on_time' = power_on_time
            /\ PORTB' = TimeChecks(variant, PORTB, power_on_time, now).PORTB)]_vars

\* a release was sampled while the program was on, its debounce window has
\* passed and check_button has found it so: the program is still on
C21_Witness ==
    /\ HasButton(variant) /\ pc = "loop"
    /\ PINB = 1 /\ button_state = 0 /\ flips >= 1
    /\ ~waiting /\ since < SinceCap /\ since >= DebounceAt(variant)
    /\ OnBit(variant) \in PORTB
    /\ btn = 0 /\ branch = "none"

\* C22: in the programs with a warning stage an iteration that obtains an
\* activation applies the button's action alone and skips the power-off and
\* warning tests; an activation processed in WARNING when now - power_on_time
\* has already reached the power-off threshold restarts the timer and leaves
\* the load on.
C22_ButtonBeforeTimeout ==
    /\ [][(ActivationStep /\ IsAC(variant))
            => (/\ PORTB' = ButtonPressed(variant, PORTB, power_on_time, now).PORTB
                /\ power_on_time'
                     = ButtonPressed(variant, PORTB, power_on_time, now).power_on_time
                /\ branch' \in {"on", "off", "snooze"})]_vars
    /\ [][(ActivationStep /\ IsAC(variant) /\ BIT_WARN \in PORTB
             /\ TimedOut(variant, now, power_on_time))
            => (/\ BIT_POWER \in PORTB'
                /\ BIT_WARN \notin PORTB'
                /\ power_on_time' = now)]_vars

\* the iteration at hand has read the `now` at which the power-off test
\* succeeds, in WARNING, and the press sampled a debounce window ago is still
\* held: check_button is about to report it
C22_Witness ==
    /\ IsAC(variant) /\ pc = "check"
    /\ PORTB \cap {BIT_POWER, BIT_WARN} = {BIT_POWER, BIT_WARN}
    /\ TimedOut(variant, now, power_on_time)
    /\ PINB = 0 /\ button_state = 1 /\ waiting
    /\ DebounceElapsed(variant, ButtonClock(variant, Counters), debounce_time)

\* C23: in the Intellitimer's button program every activation processed, in
\* OFF or in ON, sets power_on_time to `now` and leaves the ON indicator and
\* the load output on (so a press in ON restarts the timeout); the load goes
\* off only through the duty cycle or the timeout, and the indicator only
\* through the timeout.
C23_NoPressToTurnOff ==
    /\ [][(ActivationStep /\ variant = "IT_button")
            => (/\ power_on_time' = now
                /\ {BIT_LED, BIT_POWER} \subseteq PORTB'
                /\ ~TimedOut(variant, now, power_on_time'))]_vars
    /\ [][(variant = "IT_button" /\ BIT_POWER \in PORTB /\ BIT_POWER \notin PORTB')
            => (TimeStep /\ branch' \in {"duty", "timeout"})]_vars
    /\ [][(variant = "IT_button" /\ BIT_LED \in PORTB /\ BIT_LED \notin PORTB')
            => (TimeStep /\ branch' = "timeout")]_vars

\* the button program is on, in the off-phase of its duty cycle, and the
\* iteration at hand is about to report a press sampled a debounce window ago
C23_Witness ==
    /\ variant = "IT_button" /\ pc = "check"
    /\ BIT_LED \in PORTB /\ BIT_POWER \notin PORTB
    /\ now > power_on_time
    /\ PINB = 0 /\ button_state = 1 /\ waiting
    /\ DebounceElapsed(variant, ButtonClock(variant, Counters), debounce_time)

\* C24: in the boot-on program the iteration that reads seconds() >=
\* POWER_OFF_TIME clears the system-power and load outputs, and once both are
\* off they stay off: main is in its final loop, which only feeds the
\* watchdog, whatever the seconds counter does (its wrap to 0 included).
C24_PowerOffAbsorbing ==
    /\ [][(variant = "IT_boot" /\ TimeStep /\ now >= POWER_OFF_TIME(variant))
            => PORTB' \cap {BIT_POWER, BIT_LOAD} = {}]_vars
    /\ [][(variant = "IT_boot" /\ PORTB \cap {BIT_POWER, BIT_LOAD} = {})
            => PORTB' \cap {BIT_POWER, BIT_LOAD} = {}]_vars
    /\ [][(variant = "IT_boot" /\ pc = "dead") => (pc' = "dead" /\ now' = now)]_vars

\* the boot-on program has switched off, and the seconds counter has since
\* wrapped to 0, into the on-phase of the duty cycle: the outputs are off
C24_Witness ==
    /\ variant = "IT_boot" /\ pc = "dead" /\ wdt_fed
    /\ dozes >= 1 /\ seconds_count = 0
    /\ (seconds_count % DutyPeriod) < DutyOn(variant)
    /\ PORTB \cap {BIT_POWER, BIT_LOAD} = {}

====
